---- MODULE Spec2Model ----
(***************************************************************************)
(* Checkout-and-order lifecycle of the Flask ecommerce application:        *)
(* session cart (app/services/cart.py), checkout pipeline                  *)
(* (app/services/checkout.py), payment gateway (app/services/payment.py),  *)
(* customer cancel (app/routes/orders.py), admin change_status             *)
(* (app/routes/admin_orders.py) and the catalog edits that touch the       *)
(* products an order refers to (app/routes/admin_products.py).             *)
(*                                                                         *)
(* products and orders are the COMMITTED rows of the database.  What a     *)
(* checkout has flushed into its SQLAlchemy session but not yet committed  *)
(* is kept in tx, and becomes visible to other requests only at the        *)
(* db.session.commit() of checkout.py:105.  carts and session_user_id are  *)
(* the "cart" and "user_id" keys of each browser's Flask session; 0 stands *)
(* for a session that holds no user_id.  inflight holds the cancel and     *)
(* change_status requests that have loaded their order and passed their    *)
(* checks but have not yet written.                                        *)
(***************************************************************************)
EXTENDS Integers, Sequences, FiniteSets, TLC

(* ------------------------------ bounds --------------------------------- *)
MaxStock   == 2    \* largest initial stock of a product
StockCap   == 3    \* stock restoration is explored up to this level
MaxCartQty == 2    \* largest quantity a cart entry is grown to
MaxOrders  == 1    \* orders created in one behaviour of a single-session specification
MaxRaceOrders == 2 \* orders created in one behaviour of SpecRace

ProductIds   == {1, 2}          \* rows of the products table
Sessions     == {2, 3}          \* browser sessions with a cart (customers)
Solo         == {2}             \* the session that shops in Spec and SpecAtomic
Users        == {1, 2, 3}       \* user 1 is the seeded administrator
PriceChoices == {2, 3}          \* prices an admin edit may set
Repriced     == {1}             \* products whose price the admin edits
Archived     == {2}             \* products the admin archives and reactivates
Contended    == {1}             \* products both sessions buy in SpecRace
InitPrice(p) == IF p = 1 THEN 2 ELSE 3
QtyInputs    == 1..MaxCartQty   \* quantities the cart routes let through
UpdateInputs == 0..MaxCartQty   \* update_item also takes qty <= 0
ServiceQtyInputs == (0 - 1)..MaxCartQty  \* CartService is called with any integer
MissingProducts == {3}          \* an id no row of the products table has

VARIABLES products, carts, orders, resp, paymentCalls, pc, summ, tx, session_user_id,
          inflight

vars == <<products, carts, orders, resp, paymentCalls, pc, summ, tx, session_user_id, inflight>>

(* ------------------------------ constants ------------------------------ *)
ORDER_STATUS_PENDING  == "pending"
ORDER_STATUS_PAID     == "paid"
ORDER_STATUS_SHIPPED  == "shipped"
ORDER_STATUS_CANCELED == "canceled"

\* mutant: a fifth status has crept into the allowed set
ALLOWED_STATUSES_refunded ==
    {ORDER_STATUS_PENDING, ORDER_STATUS_PAID, ORDER_STATUS_SHIPPED, ORDER_STATUS_CANCELED,
     "refunded"}

ALLOWED_STATUSES ==
    {ORDER_STATUS_PENDING, ORDER_STATUS_PAID, ORDER_STATUS_SHIPPED, ORDER_STATUS_CANCELED}

Role(u) == IF u = 1 THEN "admin" ELSE "customer"

Max(a, b) == IF a >= b THEN a ELSE b

(* ------------------------------ cart service --------------------------- *)
\* The session cart is a Python dict product_id -> qty; a dict keeps its
\* insertion order, so it is a sequence of entries with distinct pids.
HasKey(cart, pid) == \E i \in 1..Len(cart) : cart[i].pid = pid

CartGet(cart, pid, dflt) ==
    IF HasKey(cart, pid)
    THEN (CHOOSE e \in {cart[i] : i \in 1..Len(cart)} : e.pid = pid).qty
    ELSE dflt

CartSet(cart, pid, qty) ==
    IF HasKey(cart, pid)
    THEN [i \in 1..Len(cart) |-> IF cart[i].pid = pid THEN [pid |-> pid, qty |-> qty] ELSE cart[i]]
    ELSE Append(cart, [pid |-> pid, qty |-> qty])

CartDel(cart, pid) == SelectSeq(cart, LAMBDA e : e.pid # pid)

\* mutant: the quantity replaces the old one where it should be added to it
add_item_overwrites(cart, pid, qty) ==
    IF qty <= 0 THEN cart
    ELSE CartSet(cart, pid, qty)

add_item(cart, pid, qty) ==
    IF qty <= 0 THEN cart
    ELSE CartSet(cart, pid, CartGet(cart, pid, 0) + qty)

\* mutant: the quantity is added to the old one where it should replace it
update_item_adds(cart, pid, qty) ==
    IF qty <= 0 THEN CartDel(cart, pid)
    ELSE CartSet(cart, pid, CartGet(cart, pid, 0) + qty)

\* mutant: the quantity is stored without the qty <= 0 branch
update_item_unguarded(cart, pid, qty) == CartSet(cart, pid, qty)

update_item(cart, pid, qty) ==
    IF qty <= 0 THEN CartDel(cart, pid)
    ELSE CartSet(cart, pid, qty)

remove_item(cart, pid) == CartDel(cart, pid)

\* mutant: only the oldest entry is dropped
clear_oldest(cart) == IF cart = << >> THEN << >> ELSE Tail(cart)

clear(cart) == << >>

RECURSIVE SumSubtotals(_)
SumSubtotals(items) ==
    IF items = << >> THEN 0
    ELSE items[1].subtotal_cents + SumSubtotals(Tail(items))

\* mutant: the subtotal is the unit price, the quantity is forgotten
LineItemFlat(e, prods) ==
    LET qty        == Max(1, e.qty)
        unit_price == prods[e.pid].price_cents
    IN  [product_id |-> e.pid, qty |-> qty,
         unit_price_cents |-> unit_price, subtotal_cents |-> unit_price]

LineItem(e, prods) ==
    LET qty        == Max(1, e.qty)
        unit_price == prods[e.pid].price_cents
    IN  [product_id |-> e.pid, qty |-> qty,
         unit_price_cents |-> unit_price, subtotal_cents |-> unit_price * qty]

\* mutant: the query forgets the status filter, archived products stay in
get_cart_summary_any_status(cart, prods) ==
    LET kept  == SelectSeq(cart, LAMBDA e : e.pid \in DOMAIN prods)
        items == [i \in 1..Len(kept) |-> LineItem(kept[i], prods)]
    IN  [items |-> items, total_cents |-> SumSubtotals(items), item_count |-> Len(items)]

\* mutant: item_count counts the raw cart entries, dropped ones included
get_cart_summary_rawcount(cart, prods) ==
    LET kept  == SelectSeq(cart, LAMBDA e : e.pid \in DOMAIN prods /\ prods[e.pid].status = "active")
        items == [i \in 1..Len(kept) |-> LineItem(kept[i], prods)]
    IN  [items |-> items, total_cents |-> SumSubtotals(items), item_count |-> Len(cart)]

get_cart_summary(cart, prods) ==
    LET kept  == SelectSeq(cart, LAMBDA e : e.pid \in DOMAIN prods /\ prods[e.pid].status = "active")
        items == [i \in 1..Len(kept) |-> LineItem(kept[i], prods)]
    IN  [items |-> items, total_cents |-> SumSubtotals(items), item_count |-> Len(items)]

EmptySummary == [items |-> << >>, total_cents |-> 0, item_count |-> 0]

(* ------------------------------ checkout service ----------------------- *)
\* mutant: the stock comparison of _validate_stock is left out
ItemFailsNoStock(item, prods) ==
    \/ item.product_id \notin DOMAIN prods
    \/ prods[item.product_id].status # "active"

ItemFails(item, prods) ==
    \/ item.product_id \notin DOMAIN prods
    \/ prods[item.product_id].status # "active"
    \/ prods[item.product_id].qty < item.qty

\* mutant: validation accepts every cart
_validate_stock_skip(items, prods) == ""

\* _validate_stock raises at the first failing line item; "" means no error.
_validate_stock(items, prods) ==
    IF \E i \in 1..Len(items) : ItemFails(items[i], prods)
    THEN LET k  == CHOOSE i \in 1..Len(items) :
                       /\ ItemFails(items[i], prods)
                       /\ \A j \in 1..(i - 1) : ~ItemFails(items[j], prods)
             it == items[k]
         IN  IF it.product_id \notin DOMAIN prods \/ prods[it.product_id].status # "active"
             THEN "Product is unavailable."
             ELSE "Insufficient stock for product."
    ELSE ""

\* mutant: every line item takes one unit, whatever its quantity
_deduct_stock_one(items, prods) ==
    [p \in DOMAIN prods |->
        IF \E i \in 1..Len(items) : items[i].product_id = p
        THEN [prods[p] EXCEPT !.qty = prods[p].qty - 1]
        ELSE prods[p]]

RECURSIVE _deduct_stock(_, _)
_deduct_stock(items, prods) ==
    IF items = << >> THEN prods
    ELSE LET it == items[1]
         IN  _deduct_stock(Tail(items),
                 [prods EXCEPT ![it.product_id].qty = prods[it.product_id].qty - it.qty])

OrderItemOf(item) ==
    [product_id |-> item.product_id, unit_price_cents |-> item.unit_price_cents,
     qty |-> item.qty, subtotal_cents |-> item.subtotal_cents]

\* mutant: the total adds the unit prices and forgets the quantities
_create_order_unit_total(user_id, cart_summary) ==
    LET its == cart_summary.items
        f[i \in 0..Len(its)] == IF i = 0 THEN 0 ELSE f[i - 1] + its[i].unit_price_cents
    IN  [user_id |-> user_id, status |-> ORDER_STATUS_PENDING,
         total_cents |-> f[Len(its)],
         items |-> [i \in 1..Len(its) |-> OrderItemOf(its[i])]]

_create_order(user_id, cart_summary) ==
    [user_id |-> user_id, status |-> ORDER_STATUS_PENDING,
     total_cents |-> cart_summary.total_cents,
     items |-> [i \in 1..Len(cart_summary.items) |-> OrderItemOf(cart_summary.items[i])]]

\* mutant: a status change re-prices the items from the live catalog
SetStatusReprice(ords, oid, st) ==
    [ords EXCEPT ![oid].status = st,
                 ![oid].items = [i \in 1..Len(ords[oid].items) |->
                     [ords[oid].items[i] EXCEPT
                         !.unit_price_cents = products[ords[oid].items[i].product_id].price_cents]]]

\* mutant: canceled is treated as a final status that nothing overwrites
SetStatusCanceledFinal(ords, oid, st) ==
    IF ords[oid].status = ORDER_STATUS_CANCELED THEN ords
    ELSE [ords EXCEPT ![oid].status = st]

\* order.status = ...; db.session.commit()
SetStatus(ords, oid, st) == [ords EXCEPT ![oid].status = st]

\* mutant: the restoration loop stops after the first item
RestoreStockFirst(items, prods) ==
    IF items = << >> THEN prods
    ELSE [prods EXCEPT ![items[1].product_id].qty = prods[items[1].product_id].qty + items[1].qty]

\* for item in order.items: item.product.qty += item.qty
RECURSIVE RestoreStock(_, _)
RestoreStock(items, prods) ==
    IF items = << >> THEN prods
    ELSE LET it == items[1]
         IN  RestoreStock(Tail(items),
                 IF it.product_id \in DOMAIN prods
                 THEN [prods EXCEPT ![it.product_id].qty = prods[it.product_id].qty + it.qty]
                 ELSE prods)

(* ------------------------------ responses ------------------------------ *)
\* What the last request returned: handler, requesting user, HTTP status,
\* "success", "error"
\* and the order the body names (0 when it names none).
Resp(op, who, code, ok, err, oid) ==
    [op |-> op, who |-> who, code |-> code, success |-> ok, error |-> err, order_id |-> oid]

\* The unit of work of a checkout's SQLAlchemy session: the flushed order,
\* the qty column of the product rows it changed, the id of its order.
NoTx == [order |-> _create_order(0, EmptySummary), writes |-> << >>, oid |-> 0]

ItemPids(items) == {items[i].product_id : i \in 1..Len(items)}

\* mutant: the order is committed where it should only be flushed
FlushCommits(ords, order) == Append(ords, order)

\* db.session.flush(): the INSERT reaches the open transaction only, the
\* committed rows stay as they are.
Flush(ords, order) == ords

\* db.session.commit() of the reservation: the order row is inserted and
\* UPDATE products SET qty = <session value> runs for every changed row.
CommitOrder(ords, order) == Append(ords, order)

CommitStock(prods, writes) ==
    [p \in DOMAIN prods |->
        IF p \in DOMAIN writes THEN [prods[p] EXCEPT !.qty = writes[p]] ELSE prods[p]]

\* order.status = "paid" / "canceled" after the await, then commit: the
\* order object was expired by the first commit, the UPDATE is unconditional.
\* mutant: a declined payment puts the reserved quantities back
AfterDeclineRestores(prods, items) == RestoreStock(items, prods)

\* mutant: the outcome is written only onto an order that is still pending
FinalizeIfPending(ords, oid, approved) ==
    IF ords[oid].status = ORDER_STATUS_PENDING
    THEN SetStatus(ords, oid, IF approved THEN ORDER_STATUS_PAID ELSE ORDER_STATUS_CANCELED)
    ELSE ords

\* The decline branch (checkout.py:113-118) adds and commits the order only:
\* the product rows that _deduct_stock changed are not touched again.
AfterDecline(prods, items) == prods

Finalize(ords, oid, approved) ==
    SetStatus(ords, oid, IF approved THEN ORDER_STATUS_PAID ELSE ORDER_STATUS_CANCELED)

(* ------------------------------ initial state -------------------------- *)
Init ==
    /\ \E stock \in [ProductIds -> 1..MaxStock] :
          products = [p \in ProductIds |->
                         [qty |-> stock[p], price_cents |-> InitPrice(p), status |-> "active"]]
    /\ carts = [s \in Sessions |-> << >>]
    /\ orders = << >>
    /\ resp = Resp("none", 0, 0, TRUE, "", 0)
    /\ paymentCalls = 0
    /\ pc = [s \in Sessions |-> "idle"]
    /\ summ = [s \in Sessions |-> EmptySummary]
    /\ tx = [s \in Sessions |-> NoTx]
    /\ session_user_id = [s \in Sessions |-> s]
    /\ inflight = {}

(* ------------------------------ cart routes ---------------------------- *)
\* POST /cart/add/<product_id>
add_to_cart(s, pid, qty) ==
    /\ pc[s] = "idle"
    /\ CartGet(carts[s], pid, 0) + qty <= MaxCartQty
    /\ IF products[pid].status # "active"
       THEN /\ resp' = Resp("cart", s, 404, FALSE, "Product not found", 0)
            /\ UNCHANGED carts
       ELSE IF qty <= 0
       THEN /\ resp' = Resp("cart", s, 400, FALSE, "Quantity must be positive", 0)
            /\ UNCHANGED carts
       ELSE /\ carts' = [carts EXCEPT ![s] = add_item(carts[s], pid, qty)]
            /\ resp' = Resp("cart", s, 200, TRUE, "", 0)
    /\ UNCHANGED <<products, orders, paymentCalls, pc, summ, tx, session_user_id, inflight>>

\* POST /cart/update/<product_id>
update_cart_item(s, pid, qty) ==
    /\ pc[s] = "idle"
    /\ carts' = [carts EXCEPT ![s] = update_item(carts[s], pid, qty)]
    /\ resp' = Resp("cart", s, 200, TRUE, "", 0)
    /\ UNCHANGED <<products, orders, paymentCalls, pc, summ, tx, session_user_id, inflight>>

\* POST /cart/remove/<product_id>
remove_cart_item(s, pid) ==
    /\ pc[s] = "idle"
    /\ carts' = [carts EXCEPT ![s] = remove_item(carts[s], pid)]
    /\ resp' = Resp("cart", s, 200, TRUE, "", 0)
    /\ UNCHANGED <<products, orders, paymentCalls, pc, summ, tx, session_user_id, inflight>>

\* POST /cart/clear
clear_cart(s) ==
    /\ pc[s] = "idle"
    /\ carts' = [carts EXCEPT ![s] = clear(carts[s])]
    /\ resp' = Resp("cart", s, 200, TRUE, "", 0)
    /\ UNCHANGED <<products, orders, paymentCalls, pc, summ, tx, session_user_id, inflight>>

(* ------------------------------ cart service calls -------------------- *)
\* CartService called directly on the cart of session s, as the routes and
\* the checkout do; no response is produced.
CartService_add_item(s, pid, qty) ==
    /\ CartGet(carts[s], pid, 0) + qty <= MaxCartQty
    /\ carts' = [carts EXCEPT ![s] = add_item(carts[s], pid, qty)]
    /\ UNCHANGED <<products, orders, resp, paymentCalls, pc, summ, tx, session_user_id, inflight>>

CartService_update_item(s, pid, qty) ==
    /\ carts' = [carts EXCEPT ![s] = update_item(carts[s], pid, qty)]
    /\ UNCHANGED <<products, orders, resp, paymentCalls, pc, summ, tx, session_user_id, inflight>>

CartService_remove_item(s, pid) ==
    /\ carts' = [carts EXCEPT ![s] = remove_item(carts[s], pid)]
    /\ UNCHANGED <<products, orders, resp, paymentCalls, pc, summ, tx, session_user_id, inflight>>

CartService_clear(s) ==
    /\ carts' = [carts EXCEPT ![s] = clear(carts[s])]
    /\ UNCHANGED <<products, orders, resp, paymentCalls, pc, summ, tx, session_user_id, inflight>>

(* ------------------------------ catalog edits -------------------------- *)
\* POST /admin/products/<id>/edit with {"price_cents": price}
edit_product_price(pid, price) ==
    /\ products' = [products EXCEPT ![pid].price_cents = price]
    /\ resp' = Resp("product", 1, 200, TRUE, "", 0)
    /\ UNCHANGED <<carts, orders, paymentCalls, pc, summ, tx, session_user_id, inflight>>

\* POST /admin/products/<id>/edit with {"status": "active"}
edit_product_status(pid, st) ==
    /\ products' = [products EXCEPT ![pid].status = st]
    /\ resp' = Resp("product", 1, 200, TRUE, "", 0)
    /\ UNCHANGED <<carts, orders, paymentCalls, pc, summ, tx, session_user_id, inflight>>

\* POST /admin/products/<id>/delete (soft delete)
delete_product(pid) ==
    /\ products' = [products EXCEPT ![pid].status = "archived"]
    /\ resp' = Resp("product", 1, 200, TRUE, "", 0)
    /\ UNCHANGED <<carts, orders, paymentCalls, pc, summ, tx, session_user_id, inflight>>

(* ------------------------------ order routes --------------------------- *)
\* mutant: every logged-in user may act on every order
_user_can_access_order_any(order, actor) == TRUE

_user_can_access_order(order, actor) ==
    IF Role(actor) = "admin" THEN TRUE ELSE order.user_id = actor

\* mutant: an order that is already paid may still be canceled
NotCancelablePaidToo(order) == order.status \notin {"pending", "paid"}

\* orders.py:131: if order.status != "pending"
NotCancelable(order) == order.status # "pending"

\* the cancel handler of the orders blueprint (orders.py:112), requested by
\* user actor
cancel_order(actor, oid) ==
    /\ IF oid \notin 1..Len(orders)
       THEN /\ resp' = Resp("cancel", actor, 404, FALSE, "Order not found", 0)
            /\ UNCHANGED <<orders, products>>
       ELSE IF ~_user_can_access_order(orders[oid], actor)
       THEN /\ resp' = Resp("cancel", actor, 403, FALSE, "Forbidden", oid)
            /\ UNCHANGED <<orders, products>>
       ELSE IF NotCancelable(orders[oid])
       THEN /\ resp' = Resp("cancel", actor, 400, FALSE, "Only pending orders can be canceled", oid)
            /\ UNCHANGED <<orders, products>>
       ELSE /\ products' = RestoreStock(orders[oid].items, products)
            /\ \A p \in ProductIds : products'[p].qty <= StockCap
            /\ orders' = SetStatus(orders, oid, "canceled")
            /\ resp' = Resp("cancel", actor, 200, TRUE, "", oid)
    /\ UNCHANGED <<carts, paymentCalls, pc, summ, tx, session_user_id, inflight>>

\* mutant: a shipped order may be canceled like any other
CancelBlockedNever(previous_status, new_status) == FALSE

\* admin_orders.py:135
CancelBlocked(previous_status, new_status) ==
    previous_status = ORDER_STATUS_SHIPPED /\ new_status = ORDER_STATUS_CANCELED

\* mutant: only a pending order gets its stock back
RestoresStockPendingOnly(previous_status, new_status) ==
    new_status = ORDER_STATUS_CANCELED /\ previous_status = ORDER_STATUS_PENDING

\* mutant: every change to canceled restores, also from canceled
RestoresStockAlways(previous_status, new_status) == new_status = ORDER_STATUS_CANCELED

\* admin_orders.py:139
RestoresStock(previous_status, new_status) ==
    new_status = ORDER_STATUS_CANCELED /\ previous_status # ORDER_STATUS_CANCELED

\* POST /admin/orders/<order_id>/change_status with {"status": new_status};
\* "" stands for a body without a status.
change_order_status(oid, new_status) ==
    /\ IF oid \notin 1..Len(orders)
       THEN /\ resp' = Resp("change_status", 1, 404, FALSE, "Order not found", 0)
            /\ UNCHANGED <<orders, products>>
       ELSE IF new_status \notin ALLOWED_STATUSES
       THEN /\ resp' = Resp("change_status", 1, 400, FALSE, "Invalid status", oid)
            /\ UNCHANGED <<orders, products>>
       ELSE LET previous_status == orders[oid].status IN
            IF CancelBlocked(previous_status, new_status)
            THEN /\ resp' = Resp("change_status", 1, 400, FALSE, "Cannot cancel a shipped order", oid)
                 /\ UNCHANGED <<orders, products>>
            ELSE /\ products' =
                        IF RestoresStock(previous_status, new_status)
                        THEN RestoreStock(orders[oid].items, products)
                        ELSE products
                 /\ \A p \in ProductIds : products'[p].qty <= StockCap
                 /\ orders' = SetStatus(orders, oid, new_status)
                 /\ resp' = Resp("change_status", 1, 200, TRUE, "", oid)
    /\ UNCHANGED <<carts, paymentCalls, pc, summ, tx, session_user_id, inflight>>

StatusInputs == ALLOWED_STATUSES \cup {"refunded", ""}

(* ------------------------------ order routes, statement by statement --- *)
\* A request of another worker may commit between the statement that loads
\* the order and the loop that loads its items' products: the handlers
\* take no lock and do not read the status again.
Request(handler, actor, oid, previous_status, new_status) ==
    [handler |-> handler, actor |-> actor, oid |-> oid,
     previous_status |-> previous_status, new_status |-> new_status]

\* orders.py:124-132: the order is loaded and the checks are made
cancel_order_load(actor, oid) ==
    /\ IF oid \notin 1..Len(orders)
       THEN /\ resp' = Resp("cancel", actor, 404, FALSE, "Order not found", 0)
            /\ UNCHANGED inflight
       ELSE IF ~_user_can_access_order(orders[oid], actor)
       THEN /\ resp' = Resp("cancel", actor, 403, FALSE, "Forbidden", oid)
            /\ UNCHANGED inflight
       ELSE IF NotCancelable(orders[oid])
       THEN /\ resp' = Resp("cancel", actor, 400, FALSE, "Only pending orders can be canceled", oid)
            /\ UNCHANGED inflight
       ELSE /\ inflight' = inflight \cup
                    {Request("cancel", actor, oid, orders[oid].status, ORDER_STATUS_CANCELED)}
            /\ UNCHANGED resp
    /\ UNCHANGED <<products, carts, orders, paymentCalls, pc, summ, tx, session_user_id>>

\* orders.py:135-144: item.product is loaded in the loop, the status is
\* assigned, and both are committed
cancel_order_write(actor, oid) ==
    /\ \E r \in inflight :
          /\ r.handler = "cancel" /\ r.actor = actor /\ r.oid = oid
          /\ inflight' = inflight \ {r}
    /\ products' = RestoreStock(orders[oid].items, products)
    /\ \A p \in ProductIds : products'[p].qty <= StockCap
    /\ orders' = SetStatus(orders, oid, ORDER_STATUS_CANCELED)
    /\ resp' = Resp("cancel", actor, 200, TRUE, "", oid)
    /\ UNCHANGED <<carts, paymentCalls, pc, summ, tx, session_user_id>>

\* admin_orders.py:122-136: the order is loaded, previous_status is taken
change_order_status_load(oid, new_status) ==
    /\ IF oid \notin 1..Len(orders)
       THEN /\ resp' = Resp("change_status", 1, 404, FALSE, "Order not found", 0)
            /\ UNCHANGED inflight
       ELSE IF new_status \notin ALLOWED_STATUSES
       THEN /\ resp' = Resp("change_status", 1, 400, FALSE, "Invalid status", oid)
            /\ UNCHANGED inflight
       ELSE IF CancelBlocked(orders[oid].status, new_status)
       THEN /\ resp' = Resp("change_status", 1, 400, FALSE, "Cannot cancel a shipped order", oid)
            /\ UNCHANGED inflight
       ELSE /\ inflight' = inflight \cup
                    {Request("change_status", 1, oid, orders[oid].status, new_status)}
            /\ UNCHANGED resp
    /\ UNCHANGED <<products, carts, orders, paymentCalls, pc, summ, tx, session_user_id>>

\* admin_orders.py:138-156: the restore loop decided by previous_status as
\* it was loaded, the status assignment, the commit
change_order_status_write(oid) ==
    /\ \E r \in inflight :
          /\ r.handler = "change_status" /\ r.oid = oid
          /\ inflight' = inflight \ {r}
          /\ products' = IF RestoresStock(r.previous_status, r.new_status)
                         THEN RestoreStock(orders[oid].items, products)
                         ELSE products
          /\ orders' = SetStatus(orders, oid, r.new_status)
    /\ \A p \in ProductIds : products'[p].qty <= StockCap
    /\ resp' = Resp("change_status", 1, 200, TRUE, "", oid)
    /\ UNCHANGED <<carts, paymentCalls, pc, summ, tx, session_user_id>>

(* ------------------------------ session -------------------------------- *)
\* POST /auth/login with the credentials of the browser's customer
login(s) ==
    /\ pc[s] = "idle"
    /\ session_user_id' = [session_user_id EXCEPT ![s] = s]
    /\ resp' = Resp("login", s, 200, TRUE, "", 0)
    /\ UNCHANGED <<products, carts, orders, paymentCalls, pc, summ, tx, inflight>>

\* /auth/logout: session.clear() drops user_id, role and the cart
logout(s) ==
    /\ pc[s] = "idle"
    /\ session_user_id' = [session_user_id EXCEPT ![s] = 0]
    /\ carts' = [carts EXCEPT ![s] = << >>]
    /\ resp' = Resp("logout", s, 200, TRUE, "", 0)
    /\ UNCHANGED <<products, orders, paymentCalls, pc, summ, tx, inflight>>

\* routes/checkout.py:55: user_id = session.get("user_id") or 1
checkout_user_id(s) == IF session_user_id[s] = 0 THEN 1 ELSE session_user_id[s]

(* ------------------------------ checkout, one atomic request ----------- *)
\* POST /checkout run to completion with no other request in between;
\* approved is what PaymentService.process_payment resolves to.
process_checkout(s, approved) ==
    /\ pc[s] = "idle"
    /\ LET cart_summary == get_cart_summary(carts[s], products)
           verdict      == _validate_stock(cart_summary.items, products)
           order        == _create_order(checkout_user_id(s), cart_summary)
           oid          == Len(orders) + 1
       IN  IF cart_summary.item_count = 0
           THEN /\ resp' = Resp("checkout", s, 400, FALSE, "Cart is empty.", 0)
                /\ UNCHANGED <<products, carts, orders, paymentCalls>>
           ELSE IF verdict # ""
           THEN /\ resp' = Resp("checkout", s, 400, FALSE, verdict, 0)
                /\ UNCHANGED <<products, carts, orders, paymentCalls>>
           ELSE /\ Len(orders) < MaxOrders
                /\ products' = IF approved
                               THEN _deduct_stock(cart_summary.items, products)
                               ELSE AfterDecline(_deduct_stock(cart_summary.items, products),
                                                 order.items)
                /\ paymentCalls' = paymentCalls + 1
                /\ orders' = Finalize(CommitOrder(orders, order), oid, approved)
                /\ IF ~approved
                   THEN /\ UNCHANGED carts
                        /\ resp' = Resp("checkout", s, 400, FALSE, "Payment declined.", 0)
                   ELSE /\ carts' = [carts EXCEPT ![s] = clear(carts[s])]
                        /\ resp' = Resp("checkout", s, 200, TRUE, "", oid)
    /\ UNCHANGED <<pc, summ, tx, session_user_id, inflight>>

(* ------------------------------ checkout, interleaved ------------------ *)
\* checkout.py:88-91
co_read_cart(s) ==
    /\ pc[s] = "idle"
    /\ LET cart_summary == get_cart_summary(carts[s], products)
       IN  IF cart_summary.item_count = 0
           THEN /\ resp' = Resp("checkout", s, 400, FALSE, "Cart is empty.", 0)
                /\ UNCHANGED <<pc, summ>>
           ELSE /\ pc' = [pc EXCEPT ![s] = "validate"]
                /\ summ' = [summ EXCEPT ![s] = cart_summary]
                /\ UNCHANGED resp
    /\ UNCHANGED <<products, carts, orders, paymentCalls, tx, session_user_id, inflight>>

\* mutant: each line item is deducted as soon as it has passed its own check
co_validate_partial(s, cap) ==
    /\ pc[s] = "validate"
    /\ LET items   == summ[s].items
           verdict == _validate_stock(items, products)
           bad     == CHOOSE i \in 1..(Len(items) + 1) :
                          /\ i <= Len(items) => ItemFails(items[i], products)
                          /\ \A j \in 1..(i - 1) : ~ItemFails(items[j], products)
       IN  IF verdict # ""
           THEN /\ resp' = Resp("checkout", s, 400, FALSE, verdict, 0)
                /\ pc' = [pc EXCEPT ![s] = "idle"]
                /\ summ' = [summ EXCEPT ![s] = EmptySummary]
                /\ products' = _deduct_stock(SubSeq(items, 1, bad - 1), products)
           ELSE /\ Len(orders) + Cardinality({t \in Sessions : pc[t] \in {"reserve", "commit"}}) < cap
                /\ pc' = [pc EXCEPT ![s] = "reserve"]
                /\ UNCHANGED <<resp, summ, products>>
    /\ UNCHANGED <<carts, orders, paymentCalls, tx, session_user_id, inflight>>

\* mutant: a failed validation records the error but never returns
co_validate_hangs(s, cap) ==
    /\ pc[s] = "validate"
    /\ LET verdict == _validate_stock(summ[s].items, products)
       IN  IF verdict # ""
           THEN /\ resp' = Resp("checkout", s, 400, FALSE, verdict, 0)
                /\ UNCHANGED <<pc, summ>>
           ELSE /\ Len(orders) + Cardinality({t \in Sessions : pc[t] \in {"reserve", "commit"}}) < cap
                /\ pc' = [pc EXCEPT ![s] = "reserve"]
                /\ UNCHANGED <<resp, summ>>
    /\ UNCHANGED <<products, carts, orders, paymentCalls, tx, session_user_id, inflight>>

\* checkout.py:93-97
co_validate(s, cap) ==
    /\ pc[s] = "validate"
    /\ LET verdict == _validate_stock(summ[s].items, products)
       IN  IF verdict # ""
           THEN /\ resp' = Resp("checkout", s, 400, FALSE, verdict, 0)
                /\ pc' = [pc EXCEPT ![s] = "idle"]
                /\ summ' = [summ EXCEPT ![s] = EmptySummary]
           ELSE /\ Len(orders) + Cardinality({t \in Sessions : pc[t] \in {"reserve", "commit"}}) < cap
                /\ pc' = [pc EXCEPT ![s] = "reserve"]
                /\ UNCHANGED <<resp, summ>>
    /\ UNCHANGED <<products, carts, orders, paymentCalls, tx, session_user_id, inflight>>

\* checkout.py:99-103: the order and the deducted stock, inside the session
co_reserve(s) ==
    /\ pc[s] = "reserve"
    /\ LET order    == _create_order(checkout_user_id(s), summ[s])
           deducted == _deduct_stock(summ[s].items, products)
       IN  /\ tx' = [tx EXCEPT ![s] =
                       [order  |-> order,
                        writes |-> [p \in ItemPids(summ[s].items) |-> deducted[p].qty],
                        oid    |-> 0]]
           /\ orders' = Flush(orders, order)
    /\ pc' = [pc EXCEPT ![s] = "commit"]
    /\ UNCHANGED <<products, carts, resp, paymentCalls, summ, session_user_id, inflight>>

\* checkout.py:105-108: commit, then the gateway is called and awaited
co_commit(s) ==
    /\ pc[s] = "commit"
    /\ orders' = CommitOrder(orders, tx[s].order)
    /\ products' = CommitStock(products, tx[s].writes)
    /\ tx' = [tx EXCEPT ![s] = [NoTx EXCEPT !.oid = Len(orders')]]
    /\ paymentCalls' = paymentCalls + 1
    /\ pc' = [pc EXCEPT ![s] = "pay"]
    /\ UNCHANGED <<carts, resp, summ, session_user_id, inflight>>

\* mutant: the cart is cleared when the payment was declined, too
co_finalize_clears(s, approved) ==
    /\ pc[s] = "pay"
    /\ orders' = Finalize(orders, tx[s].oid, approved)
    /\ carts' = [carts EXCEPT ![s] = clear(carts[s])]
    /\ resp' = IF approved THEN Resp("checkout", s, 200, TRUE, "", tx[s].oid)
               ELSE Resp("checkout", s, 400, FALSE, "Payment declined.", 0)
    /\ products' = IF approved THEN products
                   ELSE AfterDecline(products, orders[tx[s].oid].items)
    /\ pc' = [pc EXCEPT ![s] = "idle"]
    /\ summ' = [summ EXCEPT ![s] = EmptySummary]
    /\ tx' = [tx EXCEPT ![s] = NoTx]
    /\ UNCHANGED <<paymentCalls, session_user_id, inflight>>

\* checkout.py:113-133: the gateway resolved to approved
co_finalize(s, approved) ==
    /\ pc[s] = "pay"
    /\ orders' = Finalize(orders, tx[s].oid, approved)
    /\ IF ~approved
       THEN /\ UNCHANGED carts
            /\ resp' = Resp("checkout", s, 400, FALSE, "Payment declined.", 0)
       ELSE /\ carts' = [carts EXCEPT ![s] = clear(carts[s])]
            /\ resp' = Resp("checkout", s, 200, TRUE, "", tx[s].oid)
    /\ products' = IF approved THEN products
                   ELSE AfterDecline(products, orders[tx[s].oid].items)
    /\ pc' = [pc EXCEPT ![s] = "idle"]
    /\ summ' = [summ EXCEPT ![s] = EmptySummary]
    /\ tx' = [tx EXCEPT ![s] = NoTx]
    /\ UNCHANGED <<paymentCalls, session_user_id, inflight>>

CartRequests(S) ==
    \/ \E s \in S, pid \in ProductIds, qty \in UpdateInputs : add_to_cart(s, pid, qty)
    \/ \E s \in S, pid \in ProductIds, qty \in UpdateInputs : update_cart_item(s, pid, qty)
    \/ \E s \in S, pid \in ProductIds : remove_cart_item(s, pid)
    \/ \E s \in S : clear_cart(s)

CatalogRequests ==
    \/ \E pid \in Repriced, price \in PriceChoices : edit_product_price(pid, price)
    \/ \E pid \in Archived : edit_product_status(pid, "active")
    \/ \E pid \in Archived : delete_product(pid)

OrderRequests ==
    \/ \E actor \in Users, oid \in 1..MaxOrders : cancel_order(actor, oid)
    \/ \E oid \in 1..MaxOrders, st \in StatusInputs : change_order_status(oid, st)

CheckoutSteps(S, cap) ==
    \/ \E s \in S : co_read_cart(s)
    \/ \E s \in S : co_validate(s, cap)
    \/ \E s \in S : co_reserve(s)
    \/ \E s \in S : co_commit(s)
    \/ \E s \in S, approved \in BOOLEAN : co_finalize(s, approved)

\* every request runs to completion before the next one starts
NextAtomic ==
    \/ CartRequests(Solo)
    \/ CatalogRequests
    \/ OrderRequests
    \/ \E s \in Solo, approved \in BOOLEAN : process_checkout(s, approved)

SpecAtomic == Init /\ [][NextAtomic]_vars

\* one checkout, whose steps interleave with the other requests
Next ==
    \/ CartRequests(Solo)
    \/ CatalogRequests
    \/ OrderRequests
    \/ CheckoutSteps(Solo, MaxOrders)

Spec == Init /\ [][Next]_vars

\* the order lifecycle: one checkout whose steps interleave with the cart
\* requests, the archiving of a product, cancel and admin change_status
NextLifecycle ==
    \/ CartRequests(Solo)
    \/ \E pid \in Archived : edit_product_status(pid, "active")
    \/ \E pid \in Archived : delete_product(pid)
    \/ OrderRequests
    \/ CheckoutSteps(Solo, MaxOrders)

SpecLifecycle == Init /\ [][NextLifecycle]_vars

\* one browser session: its cart, login and logout, and its checkout
NextSession ==
    \/ CartRequests(Solo)
    \/ \E s \in Solo : login(s)
    \/ \E s \in Solo : logout(s)
    \/ \E pid \in Archived : delete_product(pid)
    \/ CheckoutSteps(Solo, MaxOrders)

SpecSession == Init /\ [][NextSession]_vars

\* the cart service alone: any sequence of its four mutators, with any
\* integer quantity, on the carts of both sessions
NextCart ==
    \/ \E s \in Sessions, pid \in ProductIds, qty \in ServiceQtyInputs :
          CartService_add_item(s, pid, qty)
    \/ \E s \in Sessions, pid \in ProductIds, qty \in ServiceQtyInputs :
          CartService_update_item(s, pid, qty)
    \/ \E s \in Sessions, pid \in ProductIds : CartService_remove_item(s, pid)
    \/ \E s \in Sessions : CartService_clear(s)

SpecCart == Init /\ [][NextCart]_vars

\* the cart summary: a cart that may name a product no row has, read
\* against a catalog whose prices and statuses the admin edits
NextSummary ==
    \/ \E s \in Solo, pid \in ProductIds \cup MissingProducts, qty \in QtyInputs :
          CartService_update_item(s, pid, qty)
    \/ \E s \in Solo, pid \in ProductIds \cup MissingProducts :
          CartService_remove_item(s, pid)
    \/ CatalogRequests

SpecSummary == Init /\ [][NextSummary]_vars

\* one session's checkouts with the customer's cancel, where a checkout is
\* started only while an order can still be created
NextLive ==
    \/ \E s \in Solo, pid \in ProductIds, qty \in QtyInputs : add_to_cart(s, pid, qty)
    \/ \E s \in Solo : Len(orders) < MaxOrders /\ co_read_cart(s)
    \/ \E s \in Solo : co_validate(s, MaxOrders)
    \/ \E s \in Solo : co_reserve(s)
    \/ \E s \in Solo : co_commit(s)
    \/ \E s \in Solo, approved \in BOOLEAN : co_finalize(s, approved)
    \/ \E actor \in Solo, oid \in 1..MaxOrders : cancel_order(actor, oid)

\* process_checkout is straight-line code between its returns: once entered,
\* validation, reservation and commit each run, and the awaited
\* process_payment sleeps 1.2 s and resolves to approved or declined.
Fairness ==
    \A s \in Solo :
        /\ WF_vars(co_validate(s, MaxOrders))
        /\ WF_vars(co_reserve(s))
        /\ WF_vars(co_commit(s))
        /\ WF_vars(\E approved \in BOOLEAN : co_finalize(s, approved))

SpecLive == Init /\ [][NextLive]_vars /\ Fairness

\* one order whose payment is awaited, and cancel requests of its owner and
\* of the administrator and the administrator's change_status to canceled,
\* served by concurrent workers
NextConcurrent ==
    \/ \E s \in Solo, pid \in ProductIds, qty \in QtyInputs : add_to_cart(s, pid, qty)
    \/ CheckoutSteps(Solo, MaxOrders)
    \/ \E actor \in Users, oid \in 1..MaxOrders : cancel_order_load(actor, oid)
    \/ \E actor \in Users, oid \in 1..MaxOrders : cancel_order_write(actor, oid)
    \/ \E oid \in 1..MaxOrders : change_order_status_load(oid, ORDER_STATUS_CANCELED)
    \/ \E oid \in 1..MaxOrders : change_order_status_write(oid)

SpecConcurrent == Init /\ [][NextConcurrent]_vars

\* one session's checkouts, the customer's cancel and the administrator's
\* change_status, under the scheduling of SpecLive
NextShipped ==
    \/ \E s \in Solo, pid \in ProductIds, qty \in QtyInputs : add_to_cart(s, pid, qty)
    \/ \E s \in Solo : Len(orders) < MaxOrders /\ co_read_cart(s)
    \/ \E s \in Solo : co_validate(s, MaxOrders)
    \/ \E s \in Solo : co_reserve(s)
    \/ \E s \in Solo : co_commit(s)
    \/ \E s \in Solo, approved \in BOOLEAN : co_finalize(s, approved)
    \/ \E actor \in Users, oid \in 1..MaxOrders : cancel_order(actor, oid)
    \/ \E oid \in 1..MaxOrders, new_status \in ALLOWED_STATUSES :
          change_order_status(oid, new_status)

SpecShipped == Init /\ [][NextShipped]_vars /\ Fairness

\* two sessions check out concurrently
NextRace ==
    \/ \E s \in Sessions, pid \in Contended, qty \in QtyInputs : add_to_cart(s, pid, qty)
    \/ CheckoutSteps(Sessions, MaxRaceOrders)

SpecRace == Init /\ [][NextRace]_vars

(* ======================================================================= *)
(* Properties                                                              *)
(* ======================================================================= *)
OrderIds == 1..Len(orders)

ItemsTotal(items) ==
    LET f[i \in 0..Len(items)] == IF i = 0 THEN 0 ELSE f[i - 1] + items[i].subtotal_cents
    IN  f[Len(items)]

\* quantity of product p that order o holds
OrderedQty(o, p) ==
    LET f[i \in 0..Len(o.items)] ==
            IF i = 0 THEN 0
            ELSE f[i - 1] + (IF o.items[i].product_id = p THEN o.items[i].qty ELSE 0)
    IN  f[Len(o.items)]

\* C1: in every reachable state, every persisted order's total_cents equals
\* the sum of the subtotal_cents of its items (pending after the reservation,
\* paid or canceled after finalization, and after every cancel and admin
\* change_status).
C1_TotalIsSumOfSubtotals ==
    \A i \in OrderIds : orders[i].total_cents = ItemsTotal(orders[i].items)

C1_Witness ==
    \E i \in OrderIds :
        /\ Len(orders[i].items) = 2
        /\ \E k \in 1..2 : orders[i].items[k].qty = 2
        /\ orders[i].status = ORDER_STATUS_SHIPPED

\* C2: with every request run as one atomic unit, the stock of every
\* product is >= 0 in every reachable state.
C2_StockNeverNegative ==
    \A p \in ProductIds : products[p].qty >= 0

C2_Witness ==
    \E p \in ProductIds, i \in OrderIds :
        /\ products[p].qty = 0
        /\ OrderedQty(orders[i], p) = 2

\* C3: concurrent checkouts oversell.  Stock below zero is reachable
\* (C3_Witness: two orders, each of which alone fits the stock), and it is
\* the work of at least two checkouts of that product: no single order
\* drives a product below zero.
C3_OversellTakesTwoCheckouts ==
    \A p \in ProductIds :
        products[p].qty < 0 =>
            Cardinality({i \in OrderIds : OrderedQty(orders[i], p) > 0}) >= 2

C3_Witness ==
    \E p \in ProductIds :
        /\ products[p].qty < 0
        /\ Len(orders) = 2
        /\ \A i \in OrderIds :
              /\ OrderedQty(orders[i], p) > 0
              /\ products[p].qty + OrderedQty(orders[i], p) >= 0

\* C4: no step changes the items of an order that exists: neither their
\* membership nor any item's unit_price_cents, qty or subtotal_cents, also
\* when the product's price is edited afterwards.
C4_ItemsFrozen ==
    [][\A i \in OrderIds :
          /\ i <= Len(orders')
          /\ orders'[i].items = orders[i].items]_vars

C4_Witness ==
    \E i \in OrderIds :
        /\ orders[i].status = ORDER_STATUS_CANCELED
        /\ \E k \in 1..Len(orders[i].items) :
              orders[i].items[k].unit_price_cents
                  # products[orders[i].items[k].product_id].price_cents

\* ---- what a cart buys, stated on the raw cart and the product rows ----
Buys(cart, prods, k) == prods[cart[k].pid].status = "active"

Requested(cart, prods, p) ==
    IF \E k \in 1..Len(cart) : cart[k].pid = p /\ Buys(cart, prods, k)
    THEN CartGet(cart, p, 0)
    ELSE 0

CartTotal(cart, prods) ==
    LET f[k \in 0..Len(cart)] ==
            IF k = 0 THEN 0
            ELSE f[k - 1] + (IF Buys(cart, prods, k)
                             THEN prods[cart[k].pid].price_cents * cart[k].qty ELSE 0)
    IN  f[Len(cart)]

CheckoutReturned == resp'.op = "checkout"

\* C5 as stated: after a successful checkout every product in the cart is
\* exactly its requested quantity lower, the order is paid with the cart
\* summary's total, and the cart is empty.
C5_Original ==
    [][CheckoutReturned /\ resp'.success =>
          LET s == resp'.who
              o == orders'[resp'.order_id]
          IN  /\ \A k \in 1..Len(carts[s]) :
                    products'[carts[s][k].pid].qty
                        = products[carts[s][k].pid].qty - carts[s][k].qty
              /\ o.status = ORDER_STATUS_PAID
              /\ o.total_cents = CartTotal(carts[s], products)
              /\ carts'[s] = << >>]_vars

\* C5 amended: after a successful checkout (run with no other request
\* interleaved) every ACTIVE product in the cart
\* (the line items of the cart summary) is exactly its requested quantity
\* lower, every other product (a cart entry of an archived product
\* included) keeps its stock, the order is paid with the cart summary's
\* total, and the cart is empty.
C5_SuccessfulCheckout ==
    [][CheckoutReturned /\ resp'.success =>
          LET s == resp'.who
              o == orders'[resp'.order_id]
          IN  /\ \A p \in ProductIds :
                    products'[p].qty = products[p].qty - Requested(carts[s], products, p)
              /\ resp'.order_id = Len(orders) + 1
              /\ o.status = ORDER_STATUS_PAID
              /\ o.total_cents = CartTotal(carts[s], products)
              /\ carts'[s] = << >>]_vars

C5_Witness ==
    /\ resp.op = "checkout"
    /\ resp.success
    /\ carts[resp.who] = << >>
    /\ orders[resp.order_id].status = ORDER_STATUS_PAID
    /\ Len(orders[resp.order_id].items) = 2
    /\ \E p \in ProductIds : OrderedQty(orders[resp.order_id], p) = 2 /\ products[p].qty = 0

FailsAlone(item, prods) ==
    prods[item.product_id].status # "active" \/ prods[item.product_id].qty < item.qty

ValidationErrors == {"Product is unavailable.", "Insufficient stock for product."}

\* C6: a checkout leaves validation with an error exactly when some line
\* item fails (product not active, or stock below the requested quantity);
\* it then returns the error and has created no order and changed no stock,
\* not even that of the line items before the failing one.  Reading the
\* cart changes neither.
C6_FailedValidationChangesNothing ==
    [][\A s \in Sessions :
          /\ (pc[s] = "idle" /\ pc'[s] = "validate") => UNCHANGED <<orders, products>>
          /\ (pc[s] = "validate" /\ pc'[s] # "validate") =>
                IF \E k \in 1..Len(summ[s].items) : FailsAlone(summ[s].items[k], products)
                THEN /\ pc'[s] = "idle"
                     /\ resp'.op = "checkout" /\ resp'.who = s /\ ~resp'.success
                     /\ resp'.error \in ValidationErrors
                     /\ UNCHANGED <<orders, products>>
                ELSE pc'[s] = "reserve"]_vars

C6_Witness ==
    /\ resp.op = "checkout"
    /\ resp.error = "Insufficient stock for product."
    /\ pc[resp.who] = "idle"
    /\ Len(carts[resp.who]) = 2
    /\ LET c == carts[resp.who]
       IN  /\ products[c[1].pid].status = "active" /\ products[c[1].pid].qty >= c[1].qty
           /\ products[c[2].pid].status = "active" /\ products[c[2].pid].qty < c[2].qty
    /\ orders = << >>

\* C7: when the gateway declines, the checkout returns success = FALSE with
\* "Payment declined.", the order it created is canceled, and every product
\* is left at its post-deduction level: stock before minus the requested
\* quantity, nothing added back.
C7_DeclineKeepsDeduction ==
    [][CheckoutReturned /\ resp'.error = "Payment declined." =>
          LET s == resp'.who
          IN  /\ ~resp'.success
              /\ Len(orders') = Len(orders) + 1
              /\ orders'[Len(orders')].status = ORDER_STATUS_CANCELED
              /\ orders'[Len(orders')].user_id = s
              /\ \A p \in ProductIds :
                    products'[p].qty = products[p].qty - Requested(carts[s], products, p)]_vars

C7_Witness ==
    /\ resp.op = "checkout"
    /\ resp.error = "Payment declined."
    /\ orders # << >>
    /\ orders[Len(orders)].status = ORDER_STATUS_CANCELED
    /\ \E p \in ProductIds :
          OrderedQty(orders[Len(orders)], p) = 2 /\ products[p].qty = 0

\* C8: when process_checkout returns after the Reserve step, its order is
\* paid if it reports success and canceled if it reports "Payment
\* declined.", whatever other requests did to the order while the payment
\* was awaited; it is never left pending.
C8_ReturnsPaidOrCanceled ==
    [][\A s \in Sessions :
          (pc[s] = "pay" /\ pc'[s] # "pay") =>
              /\ pc'[s] = "idle"
              /\ resp'.op = "checkout" /\ resp'.who = s
              /\ \/ /\ resp'.success
                    /\ orders'[tx[s].oid].status = ORDER_STATUS_PAID
                 \/ /\ ~resp'.success /\ resp'.error = "Payment declined."
                    /\ orders'[tx[s].oid].status = ORDER_STATUS_CANCELED]_vars

\* the order was canceled (stock restored) while the payment was awaited,
\* and the checkout still returned with the order paid
C8_Witness ==
    /\ resp.op = "checkout"
    /\ resp.success
    /\ orders[resp.order_id].status = ORDER_STATUS_PAID
    /\ \E p \in ProductIds :
          OrderedQty(orders[resp.order_id], p) = 2 /\ products[p].qty = 2

\* C9: the order and its stock deduction become durable in one commit: in
\* every step, an order row is added to the committed orders exactly when
\* the committed stock of its items' products goes down, and of no others.
C9_OrderAndStockCommitTogether ==
    [][LET dropped == {p \in ProductIds : products'[p].qty < products[p].qty}
       IN  IF Len(orders') > Len(orders)
           THEN /\ Len(orders') = Len(orders) + 1
                /\ dropped = {p \in ProductIds : OrderedQty(orders'[Len(orders')], p) > 0}
           ELSE dropped = {}]_vars

C9_Witness ==
    \E s \in Sessions :
        /\ pc[s] = "pay"
        /\ orders[tx[s].oid].status = ORDER_STATUS_PENDING
        /\ Len(orders[tx[s].oid].items) = 2

\* C10: a checkout whose cart summary has no line item (the cart is empty,
\* or all its entries are of archived products) returns "Cart is empty.",
\* and a checkout that returns it has created no order, changed no stock
\* and not called the payment gateway.
C10_EmptyCartRejected ==
    [][CheckoutReturned =>
          LET s == resp'.who
          IN  /\ (\A k \in 1..Len(carts[s]) : ~Buys(carts[s], products, k))
                    => resp'.error = "Cart is empty."
              /\ resp'.error = "Cart is empty."
                    => /\ ~resp'.success
                       /\ UNCHANGED <<orders, products, paymentCalls, carts>>]_vars

C10_Witness ==
    /\ resp.op = "checkout"
    /\ resp.error = "Cart is empty."
    /\ carts[resp.who] # << >>
    /\ orders = << >>
    /\ paymentCalls = 0

(* ------------------------------ order lifecycle ------------------------ *)
\* The step is a cancel request that returned: cancel_order leaves pc alone
\* and every step that leaves resp alone moves pc.
CancelReturned == resp'.op = "cancel" /\ pc' = pc

ChangeStatusReturned == resp'.op = "change_status" /\ pc' = pc

OthersUnchanged(oid) ==
    /\ Len(orders') = Len(orders)
    /\ \A j \in OrderIds : j # oid => orders'[j] = orders[j]

\* C11: a cancel of a pending order by its owner or an administrator
\* succeeds, sets the order's status to canceled and raises the stock of
\* every product by exactly the quantity the order holds of it (nothing for
\* a product the order does not contain).
C11_CancelRestoresStock ==
    [][\A oid \in OrderIds :
          (/\ CancelReturned /\ resp'.order_id = oid
           /\ orders[oid].status = ORDER_STATUS_PENDING
           /\ _user_can_access_order(orders[oid], resp'.who)) =>
              /\ resp'.success /\ resp'.code = 200
              /\ orders'[oid].status = ORDER_STATUS_CANCELED
              /\ \A p \in ProductIds :
                    products'[p].qty = products[p].qty + OrderedQty(orders[oid], p)]_vars

\* the customer canceled a two-item order while its payment was awaited
C11_Witness ==
    /\ resp.op = "cancel" /\ resp.success /\ Role(resp.who) = "customer"
    /\ pc[resp.who] = "pay"
    /\ orders[resp.order_id].status = ORDER_STATUS_CANCELED
    /\ Len(orders[resp.order_id].items) = 2
    /\ \E p \in ProductIds :
          OrderedQty(orders[resp.order_id], p) = 2 /\ products[p].qty = 2

\* C12: a cancel of an order whose status is not pending (paid, shipped or
\* canceled) is rejected, with the rule-violation error 400 "Only pending
\* orders can be canceled" when the actor is the owner or an administrator
\* (any other actor is turned away as forbidden before the status is
\* looked at), and it leaves every order and every product's stock as they
\* were.
C12_OnlyPendingCanceled ==
    [][\A oid \in OrderIds :
          (CancelReturned /\ resp'.order_id = oid
              /\ orders[oid].status # ORDER_STATUS_PENDING) =>
              /\ ~resp'.success
              /\ _user_can_access_order(orders[oid], resp'.who) =>
                    /\ resp'.code = 400
                    /\ resp'.error = "Only pending orders can be canceled"
              /\ UNCHANGED <<orders, products>>]_vars

\* the owner tried to cancel the order the checkout had just paid
C12_Witness ==
    /\ resp.op = "cancel" /\ resp.code = 400
    /\ resp.who \in Sessions
    /\ pc[resp.who] = "idle"
    /\ orders[resp.order_id].user_id = resp.who
    /\ orders[resp.order_id].status = ORDER_STATUS_PAID
    /\ \E p \in ProductIds :
          OrderedQty(orders[resp.order_id], p) = 2 /\ products[p].qty = 0

\* C13: a cancel requested by a user who is neither the order's owner nor
\* an administrator is rejected as forbidden (403) and leaves every order
\* and every product's stock as they were; an administrator's cancel of
\* another user's pending order succeeds.
C13_CancelNeedsOwnerOrAdmin ==
    [][\A oid \in OrderIds :
          (CancelReturned /\ resp'.order_id = oid) =>
              IF Role(resp'.who) # "admin" /\ orders[oid].user_id # resp'.who
              THEN /\ ~resp'.success
                   /\ resp'.code = 403 /\ resp'.error = "Forbidden"
                   /\ UNCHANGED <<orders, products>>
              ELSE orders[oid].status = ORDER_STATUS_PENDING =>
                      /\ resp'.success
                      /\ orders'[oid].status = ORDER_STATUS_CANCELED]_vars

\* another customer tried to cancel the order while it was pending
C13_Witness ==
    /\ resp.op = "cancel" /\ resp.code = 403
    /\ Role(resp.who) = "customer"
    /\ orders[resp.order_id].user_id # resp.who
    /\ orders[resp.order_id].status = ORDER_STATUS_PENDING
    /\ pc[orders[resp.order_id].user_id] = "pay"

\* C14: an admin change_status to canceled of an order that is shipped is
\* rejected with an error; the order is still shipped afterwards and no
\* order and no product's stock has changed.
C14_ShippedNotCanceled ==
    [][\A oid \in OrderIds :
          (/\ change_order_status(oid, ORDER_STATUS_CANCELED)
           /\ orders[oid].status = ORDER_STATUS_SHIPPED) =>
              /\ ~resp'.success /\ resp'.code = 400
              /\ orders'[oid].status = ORDER_STATUS_SHIPPED
              /\ UNCHANGED <<orders, products>>]_vars

C14_Witness ==
    /\ resp.op = "change_status"
    /\ resp.error = "Cannot cancel a shipped order"
    /\ orders[resp.order_id].status = ORDER_STATUS_SHIPPED
    /\ \E p \in ProductIds :
          OrderedQty(orders[resp.order_id], p) = 2 /\ products[p].qty = 0

\* C15: an admin change_status to canceled of an order that is pending or
\* paid succeeds, sets the status to canceled and raises the stock of every
\* product by exactly the quantity the order holds of it, once.
C15_AdminCancelRestoresOnce ==
    [][\A oid \in OrderIds :
          (/\ change_order_status(oid, ORDER_STATUS_CANCELED)
           /\ orders[oid].status \in {ORDER_STATUS_PENDING, ORDER_STATUS_PAID}) =>
              /\ resp'.success
              /\ orders'[oid].status = ORDER_STATUS_CANCELED
              /\ OthersUnchanged(oid)
              /\ \A p \in ProductIds :
                    products'[p].qty = products[p].qty + OrderedQty(orders[oid], p)]_vars

\* a two-item order, one product of which was archived, has been canceled
\* by the administrator and both products have their stock back
C15_Witness ==
    /\ resp.op = "change_status" /\ resp.success
    /\ orders[resp.order_id].status = ORDER_STATUS_CANCELED
    /\ Len(orders[resp.order_id].items) = 2
    /\ \E p \in ProductIds : products[p].status = "archived"
    /\ \A p \in ProductIds :
          OrderedQty(orders[resp.order_id], p) = 1 /\ products[p].qty = 2

\* C16: an admin change_status whose target is the order's current status
\* changes no order and no product's stock; canceled -> canceled restores
\* nothing a second time.
C16_SameStatusIsNoOp ==
    [][\A oid \in OrderIds :
          change_order_status(oid, orders[oid].status) =>
              UNCHANGED <<orders, products>>]_vars

\* canceled set again on the order of a declined payment: the request
\* succeeded and the stock is where the decline left it
C16_Witness ==
    /\ resp.op = "change_status" /\ resp.success
    /\ orders[resp.order_id].status = ORDER_STATUS_CANCELED
    /\ \E p \in ProductIds :
          OrderedQty(orders[resp.order_id], p) = 2 /\ products[p].qty = 0

\* C17: an admin change_status to pending, paid or shipped is accepted
\* whatever the order's current status is, sets the status to the target
\* and changes no product's stock, also when it moves the order out of
\* canceled.
C17_NonCancelTargetsAlwaysAccepted ==
    [][\A oid \in OrderIds :
          \A st \in {"pending", "paid", "shipped"} :
              change_order_status(oid, st) =>
                  /\ resp'.success /\ resp'.code = 200
                  /\ orders'[oid].status = st
                  /\ OthersUnchanged(oid)
                  /\ UNCHANGED products]_vars

\* an order whose stock a cancel had put back is shipped now
C17_Witness ==
    /\ resp.op = "change_status" /\ resp.success
    /\ orders[resp.order_id].status = ORDER_STATUS_SHIPPED
    /\ \E p \in ProductIds :
          OrderedQty(orders[resp.order_id], p) = 2 /\ products[p].qty = 2

\* C18: an admin change_status whose status is missing ("") or is not one
\* of pending, paid, shipped, canceled is rejected with an error and changes
\* no order and no product's stock.
C18_InvalidStatusRejected ==
    [][\A oid \in OrderIds :
          \A st \in StatusInputs \ {"pending", "paid", "shipped", "canceled"} :
              change_order_status(oid, st) =>
                  /\ ~resp'.success /\ resp'.code = 400
                  /\ UNCHANGED <<orders, products>>]_vars

C18_Witness ==
    /\ resp.op = "change_status"
    /\ resp.code = 400 /\ resp.error = "Invalid status"
    /\ resp.order_id \in OrderIds
    /\ orders[resp.order_id].status = ORDER_STATUS_PAID

(* ------------------------------ the session cart ----------------------- *)
\* the step ends a checkout of session s without success: "Cart is empty."
\* (pc stays idle), a validation error, or a declined payment
CheckoutFailed(s) ==
    /\ resp'.op = "checkout" /\ resp'.who = s /\ ~resp'.success
    /\ \/ pc' = pc
       \/ pc[s] \in {"validate", "pay"} /\ pc'[s] = "idle"

CheckoutSucceeded(s) ==
    /\ pc[s] = "pay" /\ pc'[s] = "idle"
    /\ resp'.op = "checkout" /\ resp'.who = s /\ resp'.success

CartRouteReturned == resp'.op = "cart" /\ pc' = pc

\* C19 as stated: a cart that had entries is empty after a step only when
\* the step is a cart route (clear, remove, update) or a successful
\* checkout, and a checkout that returns a failure leaves the cart as it
\* was.
C19_Original ==
    [][\A s \in Sessions :
          /\ (carts[s] # << >> /\ carts'[s] = << >>) =>
                CartRouteReturned \/ CheckoutSucceeded(s)
          /\ CheckoutFailed(s) => carts'[s] = carts[s]]_vars

\* C19 amended: a cart that had entries is empty after a step only when the
\* step is a cart route (clear, remove, update), a successful checkout or a
\* logout, which clears the whole session; a checkout that returns a
\* failure (empty cart, validation failure, payment declined) leaves the
\* cart as it was, and so does every checkout step before the return.
C19_CartSurvivesFailedCheckout ==
    [][\A s \in Sessions :
          /\ (carts[s] # << >> /\ carts'[s] = << >>) =>
                \/ CartRouteReturned
                \/ CheckoutSucceeded(s)
                \/ resp'.op = "logout" /\ resp'.who = s /\ pc' = pc
          /\ CheckoutFailed(s) => carts'[s] = carts[s]
          /\ (pc'[s] # pc[s] /\ ~CheckoutSucceeded(s)) => carts'[s] = carts[s]]_vars

\* the payment was declined and the two entries are still in the cart
C19_Witness ==
    /\ resp.op = "checkout" /\ resp.error = "Payment declined."
    /\ pc[resp.who] = "idle"
    /\ Len(carts[resp.who]) = 2
    /\ orders # << >>
    /\ orders[Len(orders)].status = ORDER_STATUS_CANCELED
    /\ Len(orders[Len(orders)].items) = 2

\* C20: in every cart reachable by add_item, update_item, remove_item and
\* clear with arbitrary integer quantities (zero and negative included),
\* every entry maps a product identifier, held once, to an integer
\* quantity >= 1.
C20_CartQuantitiesPositive ==
    \A s \in Sessions :
        \A i \in 1..Len(carts[s]) :
            /\ carts[s][i].pid \in ProductIds
            /\ carts[s][i].qty \in Nat /\ carts[s][i].qty >= 1
            /\ \A j \in 1..Len(carts[s]) : carts[s][j].pid = carts[s][i].pid => j = i

\* one cart holds product 2 at the largest quantity ahead of product 1,
\* the other cart is empty
C20_Witness ==
    \E s, t \in Sessions :
        /\ Len(carts[s]) = 2
        /\ carts[s][1] = [pid |-> 2, qty |-> MaxCartQty]
        /\ carts[s][2].qty = 1
        /\ carts[t] = << >>

(* ------------------------------ cart service contracts ----------------- *)
CartKeys(cart) == {cart[i].pid : i \in 1..Len(cart)}

\* the entries of every product other than pid are what they were
OtherEntriesKept(before, after, pid) ==
    \A p \in ProductIds \ {pid} :
        /\ HasKey(after, p) = HasKey(before, p)
        /\ CartGet(after, p, 0) = CartGet(before, p, 0)

\* C21: clear() is idempotent: from every reachable cart, the cart is empty
\* after one clear and after a second one, and the summary after each is
\* {items: [], total_cents: 0, item_count: 0}.
C21_ClearIdempotent ==
    \A s \in Sessions :
        LET once  == clear(carts[s])
            twice == clear(once)
        IN  /\ once = << >>
            /\ twice = << >>
            /\ get_cart_summary(once, products) = EmptySummary
            /\ get_cart_summary(twice, products) = EmptySummary

\* both carts are full, each with two entries at the largest quantity
C21_Witness ==
    \A s \in Sessions :
        /\ Len(carts[s]) = 2
        /\ \A i \in 1..2 : carts[s][i].qty = MaxCartQty

\* C22: add_item(pid, qty) with qty > 0 sets the quantity of pid to its
\* previous quantity (0 if absent) plus qty and leaves every other entry as
\* it was; with qty <= 0 it leaves the whole cart as it was.  Stated of the
\* call made on every reachable cart with every input.
C22_AddItemMerges ==
    \A s \in Sessions, pid \in ProductIds, qty \in ServiceQtyInputs :
        LET before == carts[s]
            after  == add_item(before, pid, qty)
        IN  IF qty > 0
            THEN /\ HasKey(after, pid)
                 /\ CartGet(after, pid, 0) = CartGet(before, pid, 0) + qty
                 /\ OtherEntriesKept(before, after, pid)
                 /\ Len(after) = Cardinality(CartKeys(before) \cup {pid})
            ELSE after = before

\* product 1 was added to a cart that held product 2, then added again
C22_Witness ==
    \E s \in Sessions :
        carts[s] = <<[pid |-> 2, qty |-> 1], [pid |-> 1, qty |-> MaxCartQty]>>

\* C23: update_item(pid, qty) with qty > 0 sets the quantity of pid to
\* exactly qty, creating the entry if absent; with qty <= 0 it removes the
\* entry of pid if there is one; every other entry is as it was.  Stated of
\* the call made on every reachable cart with every input.
C23_UpdateItemSets ==
    \A s \in Sessions, pid \in ProductIds, qty \in ServiceQtyInputs :
        LET before == carts[s]
            after  == update_item(before, pid, qty)
        IN  /\ IF qty > 0
               THEN HasKey(after, pid) /\ CartGet(after, pid, 0) = qty
               ELSE ~HasKey(after, pid)
            /\ OtherEntriesKept(before, after, pid)
            /\ Len(after) = Cardinality(CartKeys(before) \cup {pid}) - (IF qty > 0 THEN 0 ELSE 1)

\* product 1 stands first at quantity 1 beside product 2 at the largest
\* quantity; the other cart holds product 2 alone
C23_Witness ==
    \E s, t \in Sessions :
        /\ carts[s] = <<[pid |-> 1, qty |-> 1], [pid |-> 2, qty |-> MaxCartQty]>>
        /\ carts[t] = <<[pid |-> 2, qty |-> 1]>>

\* the cart entry k names a product that exists and is active
LiveEntry(cart, k) ==
    /\ cart[k].pid \in DOMAIN products
    /\ products[cart[k].pid].status = "active"

\* C24: the summary holds one line item for exactly the cart entries whose
\* product exists and is active, priced from the product row (entries of
\* missing or archived products are dropped without an error); total_cents
\* is the sum of the items' subtotal_cents and item_count their number.
C24_SummaryOfLiveEntries ==
    \A s \in Sessions :
        LET cart    == carts[s]
            summary == get_cart_summary(cart, products)
            items   == summary.items
        IN  /\ Len(items) = Cardinality({k \in 1..Len(cart) : LiveEntry(cart, k)})
            /\ \A k \in 1..Len(cart) :
                  LiveEntry(cart, k) =>
                      \E i \in 1..Len(items) :
                          /\ items[i].product_id = cart[k].pid
                          /\ items[i].qty = cart[k].qty
                          /\ items[i].unit_price_cents = products[cart[k].pid].price_cents
            /\ \A i \in 1..Len(items) :
                  \E k \in 1..Len(cart) :
                      LiveEntry(cart, k) /\ cart[k].pid = items[i].product_id
            /\ summary.total_cents = ItemsTotal(items)
            /\ summary.item_count = Len(items)

\* a cart of three entries: a missing product, an archived one, and an
\* active one whose price was edited
C24_Witness ==
    \E s \in Sessions :
        /\ Len(carts[s]) = 3
        /\ carts[s][1].pid \in MissingProducts
        /\ \E k \in 2..3 : products[carts[s][k].pid].status = "archived"
        /\ \E k \in 2..3 :
              /\ products[carts[s][k].pid].status = "active"
              /\ products[carts[s][k].pid].price_cents # InitPrice(carts[s][k].pid)
              /\ carts[s][k].qty = MaxCartQty

SubtotalsRight(items) ==
    \A k \in 1..Len(items) :
        items[k].subtotal_cents = items[k].unit_price_cents * items[k].qty

\* C25: in every reachable state subtotal_cents = unit_price_cents * qty
\* holds for every item of every order, for every line item of every
\* cart's summary, and for the line items a checkout in flight holds.
C25_SubtotalIsPriceTimesQty ==
    /\ \A i \in OrderIds : SubtotalsRight(orders[i].items)
    /\ \A s \in Sessions :
          /\ SubtotalsRight(get_cart_summary(carts[s], products).items)
          /\ SubtotalsRight(summ[s].items)
          /\ SubtotalsRight(tx[s].order.items)

\* an order item of quantity 2 whose product was re-priced afterwards, and
\* a cart that holds the product again at quantity 2
C25_Witness ==
    \E i \in OrderIds, s \in Sessions :
        \E k \in 1..Len(orders[i].items), c \in 1..Len(carts[s]) :
            /\ orders[i].items[k].qty = 2
            /\ carts[s][c].pid = orders[i].items[k].product_id
            /\ carts[s][c].qty = 2
            /\ products[carts[s][c].pid].status = "active"
            /\ products[carts[s][c].pid].price_cents # orders[i].items[k].unit_price_cents

\* C26: every checkout that has been entered returns: it comes back to
\* idle with a checkout result (success or an error) as the response, and
\* once its order is committed and the payment awaited, it returns with no
\* order left pending: the order is paid or canceled.
C26_CheckoutReturns ==
    \A s \in Solo :
        /\ (pc[s] # "idle") ~>
              (pc[s] = "idle" /\ resp.op = "checkout" /\ resp.who = s
                  /\ (resp.success \/ resp.error
                          \in ValidationErrors \cup {"Payment declined."}))
        /\ (pc[s] = "pay") ~>
              (pc[s] = "idle"
                  /\ \A i \in OrderIds :
                        orders[i].status \in {ORDER_STATUS_PAID, ORDER_STATUS_CANCELED})

\* the customer canceled the order while the payment was awaited, the
\* payment was then declined, and the checkout has returned
C26_Witness ==
    /\ resp.op = "checkout" /\ resp.error = "Payment declined."
    /\ pc[resp.who] = "idle"
    /\ paymentCalls = 1
    /\ orders[1].status = ORDER_STATUS_CANCELED
    /\ \E p \in ProductIds : OrderedQty(orders[1], p) = 1 /\ products[p].qty = MaxStock

\* C27 as stated: with no edit of a product's stock, no sequence of
\* checkouts, cancels and admin change_status requests, each run to
\* completion, lifts a product's stock above its initial value.  Every
\* initial stock is at most MaxStock, so stock above MaxStock is stock above
\* the initial value.
C27_Original ==
    \A p \in ProductIds : products[p].qty <= MaxStock

\* C28 as stated: when the payment resolves, the checkout writes paid or
\* canceled only onto an order that is still pending; a status that a
\* cancel or an admin change_status gave the order while the payment was
\* awaited is left as it is.
C28_Original ==
    [][\A s \in Sessions :
          (pc[s] = "pay" /\ pc'[s] # "pay"
              /\ orders[tx[s].oid].status # ORDER_STATUS_PENDING) =>
                  orders'[tx[s].oid].status = orders[tx[s].oid].status]_vars

\* C29 as stated: when a cancel and an admin change_status to canceled, or
\* two cancels, of the same pending order run concurrently, the order's
\* quantities are added back to stock at most once.  While the checkout
\* that created the order still awaits its payment, the order's deduction
\* and these restorations are all that has touched the stock, so a product
\* above MaxStock, hence above its initial stock, has been restored twice.
C29_Original ==
    \A s \in Solo :
        pc[s] = "pay" => \A p \in ProductIds : products[p].qty <= MaxStock

HasStatus(oid, status) == oid \in OrderIds /\ orders[oid].status = status

\* C30 as stated: once an order's status has been shipped, no later
\* change_status or cancel request brings the order to canceled.  Stock is
\* restored only by the request that writes canceled, so an order that is
\* never canceled again never has its quantities restored again.
C30_Original ==
    \A oid \in 1..MaxOrders :
        [](HasStatus(oid, ORDER_STATUS_SHIPPED) =>
               [](~HasStatus(oid, ORDER_STATUS_CANCELED)))

====
